---------------------------- MODULE Spec2Model ----------------------------
(***************************************************************************)
(* The two ops gateway services of viralogic-deploy:                       *)
(*   ops-service/viralogic-ops/app.py       ("ops")                        *)
(*   ops-service/monitoring-gateway/app.py  ("gateway")                    *)
(*                                                                         *)
(* Python dicts are insertion ordered; a dict is modelled as a sequence of *)
(* <<key, value>> pairs with pairwise different keys.  A Python str value  *)
(* stored in a dict is modelled as [str |-> s], a nested dict with string  *)
(* keys as a record, None as the string "None".  An API key is a sequence  *)
(* of one-character strings so that strip() can be computed.               *)
(***************************************************************************)
EXTENDS Integers, Sequences, FiniteSets, TLC

VARIABLES
    AI_MONITORING_API_KEY,     \* the configured key (both services read the same env var)
    DEFAULT_SERVICES_CONFIG,   \* ops: the static table; its group dicts are shared objects
    REGISTERED_SERVICES,       \* ops: the in-memory registry, name -> {config, group}
    call,                      \* the overview call suspended on its probes, or NoCall
    resp,                      \* the response a handler returned, until it is sent
    outbound,                  \* the outbound GETs issued by the last step
    lastReg                    \* name -> fields of the last acknowledged registration

vars == <<AI_MONITORING_API_KEY, DEFAULT_SERVICES_CONFIG, REGISTERED_SERVICES,
          call, resp, outbound, lastReg>>

---------------------------------------------------------------------------
(* Bounds of the model *)

\* longest API key drawn (characters)
MaxKeyLen == 2
\* most probes of one overview call whose downstream does not answer 200 with JSON
MaxFaults == 1
\* most earlier probes still pending when a later probe settles
MaxOvertake == 1

---------------------------------------------------------------------------
(* Python dict operations on sequences of <<key, value>> pairs *)

DictKeys(d) == {d[i][1] : i \in DOMAIN d}

DictHas(d, k) == \E i \in DOMAIN d : d[i][1] = k

DictGet(d, k) == d[CHOOSE i \in DOMAIN d : d[i][1] = k][2]

\* a dict of bounded size: storing a new key drops the oldest one
DictSet_Evicting(d, k, v) ==
    IF DictHas(d, k)
    THEN [i \in DOMAIN d |-> IF d[i][1] = k THEN <<k, v>> ELSE d[i]]
    ELSE IF d = <<>> THEN <<<<k, v>>>>
    ELSE Append(Tail(d), <<k, v>>)

\* d[k] = v : replaces in place, or appends a new key
DictSet(d, k, v) ==
    IF DictHas(d, k)
    THEN [i \in DOMAIN d |-> IF d[i][1] = k THEN <<k, v>> ELSE d[i]]
    ELSE Append(d, <<k, v>>)

\* config.get(key, default) on a nested dict modelled as a record
Get(config, key, default) ==
    IF key \in DOMAIN config THEN config[key] ELSE default

None == "None"

Str(s) == [str |-> s]

\* the value is a dict (of a service's settings), not a str
IsDict(v) == "str" \notin DOMAIN v

---------------------------------------------------------------------------
(* Configuration *)

NoKey == <<"None">>

KeyChars == {"k", "K", " "}

RECURSIVE KeysUpTo(_)
KeysUpTo(n) ==
    IF n = 0 THEN {<<>>}
    ELSE LET shorter == KeysUpTo(n - 1)
         IN  shorter \cup {Append(s, c) : s \in {t \in shorter : Len(t) = n - 1},
                                          c \in KeyChars}

\* every value os.getenv / the x-api-key header can deliver, up to MaxKeyLen
Keys == {NoKey} \cup KeysUpTo(MaxKeyLen)

\* `not key`: None and the empty string are falsy
Falsy(key) == key = NoKey \/ key = <<>>

RECURSIVE lstrip(_)
lstrip(s) == IF s # <<>> /\ Head(s) = " " THEN lstrip(Tail(s)) ELSE s

RECURSIVE rstrip(_)
rstrip(s) ==
    IF s # <<>> /\ s[Len(s)] = " " THEN rstrip(SubSeq(s, 1, Len(s) - 1)) ELSE s

\* str.strip()
strip(s) == rstrip(lstrip(s))

\* viralogic-ops: verify_ai_agent_auth
ops_verify_ai_agent_auth(configured, x_api_key) ==
    IF Falsy(configured) THEN FALSE
    ELSE IF Falsy(x_api_key) THEN FALSE
    ELSE IF x_api_key # configured THEN FALSE
    ELSE TRUE

\* monitoring-gateway: verify_ai_agent_auth
gateway_verify_ai_agent_auth(configured, x_api_key) ==
    IF Falsy(configured) THEN FALSE
    ELSE IF Falsy(x_api_key) THEN FALSE
    ELSE IF strip(x_api_key) = strip(configured) THEN TRUE
    ELSE FALSE

verify_ai_agent_auth(svc, configured, x_api_key) ==
    IF svc = "ops" THEN ops_verify_ai_agent_auth(configured, x_api_key)
    ELSE gateway_verify_ai_agent_auth(configured, x_api_key)

\* viralogic-ops: DEFAULT_SERVICES_CONFIG as the module is loaded (env defaults)
STATIC_SERVICES == <<
    <<"main_app", <<
        <<"backend", [url |-> "https://api.viralogic.io",
                      health_endpoint |-> "/health",
                      monitoring_endpoint |-> "/api/v1/monitoring",
                      metrics_endpoint |-> "/metrics",
                      logs_endpoint |-> "/api/v1/logs",
                      register_endpoint |-> "/api/v1/register"]>>,
        <<"frontend", [url |-> "https://viralogic.io",
                       health_endpoint |-> "/health",
                       metrics_endpoint |-> "/metrics",
                       logs_endpoint |-> "/api/v1/logs",
                       register_endpoint |-> "/api/v1/register"]>> >> >>,
    <<"rss_service", <<
        <<"url", Str("https://rss.viralogic.io")>>,
        <<"health_endpoint", Str("/health/public")>>,
        <<"monitoring_endpoint", Str("/api/v1/health")>>,
        <<"metrics_endpoint", Str("/metrics")>>,
        <<"logs_endpoint", Str("/api/v1/logs")>>,
        <<"register_endpoint", Str("/api/v1/register")>> >> >>,
    <<"ops_services", <<
        <<"grafana", [url |-> "http://ops-grafana:3000",
                      health_endpoint |-> "/api/health"]>>,
        <<"prometheus", [url |-> "http://ops-prometheus:1822",
                         health_endpoint |-> "/-/healthy",
                         metrics_endpoint |-> "/api/v1/query"]>>,
        <<"loki", [url |-> "http://ops-loki:1821",
                   health_endpoint |-> "/ready",
                   logs_endpoint |-> "/loki/api/v1/query"]>>,
        <<"alertmanager", [url |-> "http://ops-alertmanager:1823",
                           health_endpoint |-> "/-/healthy"]>> >> >> >>

\* monitoring-gateway: SERVICE_ENDPOINTS (env defaults)
SERVICE_ENDPOINTS == <<
    <<"backend", [base_url |-> "http://api.viralogic.io",
                  health |-> "/health",
                  metrics |-> "/metrics",
                  monitoring |-> "/api/v1/monitoring"]>>,
    <<"rss_service", [base_url |-> "http://rss.viralogic.io",
                      health |-> "/health/public",
                      metrics |-> "/metrics"]>>,
    <<"grafana", [base_url |-> "http://grafana:1820", health |-> "/api/health"]>>,
    <<"prometheus", [base_url |-> "http://prometheus:1822", health |-> "/-/healthy"]>>,
    <<"loki", [base_url |-> "http://loki:1821", health |-> "/ready"]>> >>

---------------------------------------------------------------------------
(* viralogic-ops: the service directory *)

\* the body of the loop of get_services_config, for one registered service
MergeOne(config, service_name, service_info) ==
    LET group   == service_info.group
        config1 == IF DictHas(config, group) THEN config ELSE DictSet(config, group, <<>>)
    IN  DictSet(config1, group,
                DictSet(DictGet(config1, group), service_name, service_info.config))

RECURSIVE MergeRegistered(_, _)
MergeRegistered(config, registered) ==
    IF registered = <<>> THEN config
    ELSE MergeRegistered(MergeOne(config, registered[1][1], registered[1][2]),
                         Tail(registered))

\* get_services_config(): the merged configuration it returns.  config starts as
\* DEFAULT_SERVICES_CONFIG.copy(), a shallow copy: the dicts of the static groups
\* are the objects of the static table itself.
get_services_config(defaults, registered) == MergeRegistered(defaults, registered)

\* The static table after a call of get_services_config(): what the call wrote
\* into the dict of a static group is written into the table; a group the call
\* added exists in the copy only.
DefaultsAfterMerge(defaults, registered) ==
    SubSeq(get_services_config(defaults, registered), 1, Len(defaults))


---------------------------------------------------------------------------
(* What a downstream does with one GET *)

\* answers 200 with a JSON object
OK_JSON == [kind |-> "response", status |-> 200, body |-> "json",
            message |-> "", elapsed_ms |-> 12]

\* answers 200 with a body that is not JSON (text/plain)
OK_TEXT == [kind |-> "response", status |-> 200, body |-> "text",
            message |-> "", elapsed_ms |-> 12]

HTTP_503 == [kind |-> "response", status |-> 503, body |-> "text",
             message |-> "", elapsed_ms |-> 12]

\* aiohttp.ClientConnectorError
REFUSED == [kind |-> "error", status |-> 0, body |-> "",
            message |-> "Cannot connect to host", elapsed_ms |-> 3]

\* ClientTimeout(total=10) expires: asyncio.TimeoutError(), whose str() is empty
TIMEOUT == [kind |-> "error", status |-> 0, body |-> "",
            message |-> "", elapsed_ms |-> 10000]

Outcomes == {OK_JSON, OK_TEXT, HTTP_503, REFUSED, TIMEOUT}

\* no request was made
NoOutcome == [kind |-> "none", status |-> 0, body |-> "",
              message |-> "", elapsed_ms |-> 0]

---------------------------------------------------------------------------
(* Health probes *)

Return(record) == [kind |-> "return", value |-> record]

Raise(message, elapsed_ms) ==
    [kind |-> "raise", message |-> message, elapsed_ms |-> elapsed_ms]

Healthy(service_name, response_time, details) ==
    [service |-> service_name, status |-> "healthy",
     response_time_ms |-> response_time, error |-> None, details |-> details]

Unhealthy(service_name, response_time, error) ==
    [service |-> service_name, status |-> "unhealthy",
     response_time_ms |-> response_time, error |-> error, details |-> None]

\* viralogic-ops: config['url'] succeeds, so the probe goes on to session.get
ops_reaches_get(config) == IsDict(config) /\ "url" \in DOMAIN config

\* viralogic-ops: the GET of check_service_health
ops_health_request(service_name, config, configured) ==
    [url |-> config.url \o Get(config, "health_endpoint", "/health"),
     x_api_key |-> IF service_name = "backend" /\ ~Falsy(configured)
                   THEN configured ELSE NoKey]

\* viralogic-ops: the try block of check_service_health
ops_probe_try(service_name, config, outcome) ==
    IF ~ops_reaches_get(config)
    THEN Raise("string indices must be integers", 0)
    ELSE IF outcome.kind = "error"
    THEN Raise(outcome.message, outcome.elapsed_ms)
    ELSE IF outcome.status = 200
    THEN IF outcome.body = "json"
         THEN Return(Healthy(service_name, outcome.elapsed_ms, "json"))
         ELSE Raise("Attempt to decode JSON with unexpected mimetype",
                    outcome.elapsed_ms)
    ELSE Return(Unhealthy(service_name, outcome.elapsed_ms,
                          "HTTP " \o ToString(outcome.status)))

\* check_service_health without its except clause: the exception propagates
CatchNothing(service_name, tried) == tried

\* the except clause of check_service_health (both services)
CatchAll(service_name, tried) ==
    IF tried.kind = "raise"
    THEN Return(Unhealthy(service_name, tried.elapsed_ms, tried.message))
    ELSE tried

\* viralogic-ops: check_service_health
ops_check_service_health(service_name, config, outcome) ==
    CatchAll(service_name, ops_probe_try(service_name, config, outcome))

\* monitoring-gateway: endpoint_config['base_url'] and ['health'] succeed
gateway_reaches_get(endpoint_config) ==
    "base_url" \in DOMAIN endpoint_config /\ "health" \in DOMAIN endpoint_config

\* monitoring-gateway: the GET of check_service_health
gateway_health_request(endpoint_config) ==
    [url |-> endpoint_config.base_url \o endpoint_config.health, x_api_key |-> NoKey]

\* monitoring-gateway: the try block of check_service_health
gateway_probe_try(service_name, endpoint_config, outcome) ==
    IF ~gateway_reaches_get(endpoint_config)
    THEN Raise("'health'", 0)
    ELSE IF outcome.kind = "error"
    THEN Raise(outcome.message, outcome.elapsed_ms)
    ELSE IF outcome.status = 200
    THEN Return(Healthy(service_name, outcome.elapsed_ms, None))
    ELSE Return(Unhealthy(service_name, outcome.elapsed_ms,
                          "HTTP " \o ToString(outcome.status)))

\* monitoring-gateway: check_service_health
gateway_check_service_health(service_name, endpoint_config, outcome) ==
    CatchAll(service_name, gateway_probe_try(service_name, endpoint_config, outcome))

check_service_health(svc, service_name, config, outcome) ==
    IF svc = "ops" THEN ops_check_service_health(service_name, config, outcome)
    ELSE gateway_check_service_health(service_name, config, outcome)

reaches_get(svc, config) ==
    IF svc = "ops" THEN ops_reaches_get(config) ELSE gateway_reaches_get(config)

health_request(svc, service_name, config, configured) ==
    IF svc = "ops" THEN ops_health_request(service_name, config, configured)
    ELSE gateway_health_request(config)

\* the coroutines of one overview call: <<service_name, config>> in iteration
\* order (ops: the two nested loops of discover_all_services)
RECURSIVE HealthChecks(_)
HealthChecks(services_config) ==
    IF services_config = <<>> THEN <<>>
    ELSE services_config[1][2] \o HealthChecks(Tail(services_config))

\* monitoring-gateway: the loop of get_monitoring_overview
GatewayHealthChecks ==
    SelectSeq(SERVICE_ENDPOINTS, LAMBDA item : "health" \in DOMAIN item[2])

NoResult == [kind |-> "none"]

\* a coroutine as gather() starts it: one that fails before its GET is done at
\* once, the others are suspended on the network
StartProbe(svc, check) ==
    IF reaches_get(svc, check[2])
    THEN [service_name |-> check[1], config |-> check[2], state |-> "pending",
          outcome |-> NoOutcome, result |-> NoResult]
    ELSE [service_name |-> check[1], config |-> check[2], state |-> "done",
          outcome |-> NoOutcome,
          result |-> check_service_health(svc, check[1], check[2], NoOutcome)]

StartProbes(svc, checks) == [i \in DOMAIN checks |-> StartProbe(svc, checks[i])]

\* the GETs the started coroutines issue, in order
RECURSIVE Requests(_, _, _)
Requests(svc, checks, configured) ==
    IF checks = <<>> THEN <<>>
    ELSE (IF reaches_get(svc, checks[1][2])
          THEN <<health_request(svc, checks[1][1], checks[1][2], configured)>>
          ELSE <<>>)
         \o Requests(svc, Tail(checks), configured)


---------------------------------------------------------------------------
(* Requests and responses *)

NoCall == [svc |-> "none", probes |-> <<>>]

NoResp == [route |-> "none", status |-> 0]

Idle == call.svc = "none"

\* no overview call is suspended and no response waits to be sent
Ready == Idle /\ resp.route = "none"

\* the keys callers present in the service runs
PresentedKeys == {NoKey, <<"k">>, <<"K">>}

\* the keys the service runs are configured with
ConfiguredKeys == {NoKey, <<"k">>}

\* HTTPException(status_code=401, ...) of every key-gated handler
Denied(svc, route, x_api_key) ==
    [route |-> route, svc |-> svc, x_api_key |-> x_api_key, status |-> 401,
     detail |-> "AI agent authentication required"]

---------------------------------------------------------------------------
(* The overview call: fan-out, settle, fan-in *)

\* asyncio.gather(*health_checks) is over: every coroutine returned, or one raised
GatherOver(probes) ==
    IF \E i \in DOMAIN probes : probes[i].result.kind = "raise" THEN TRUE
    ELSE \A i \in DOMAIN probes : probes[i].state = "done"

Records(probes) == [i \in DOMAIN probes |-> probes[i].result.value]

HealthyOnes(services) == SelectSeq(services, LAMBDA s : s.status = "healthy")

\* viralogic-ops: get_system_overview after discover_all_services() returned
ops_overview_response(c) ==
    IF \E i \in DOMAIN c.probes : c.probes[i].result.kind = "raise"
    THEN [route |-> "/api/overview", svc |-> "ops", x_api_key |-> c.x_api_key,
          status |-> 500, detail |-> "System overview failed"]
    ELSE LET services         == Records(c.probes)
             healthy_services == HealthyOnes(services)
         IN  [route |-> "/api/overview", svc |-> "ops", x_api_key |-> c.x_api_key,
              status |-> 200,
              overall_status |-> IF Len(healthy_services) = Len(services)
                                 THEN "healthy" ELSE "degraded",
              services |-> services,
              ai_agent_authenticated |-> TRUE,
              total_services |-> Len(services),
              healthy_services |-> Len(healthy_services)]

\* monitoring-gateway: get_monitoring_overview after gather() returned
gateway_overview_response(c) ==
    IF \E i \in DOMAIN c.probes : c.probes[i].result.kind = "raise"
    THEN [route |-> "/api/monitoring/overview", svc |-> "gateway",
          x_api_key |-> c.x_api_key, status |-> 500,
          detail |-> "Internal Server Error"]
    ELSE LET services           == Records(c.probes)
             unhealthy_services == SelectSeq(services, LAMBDA s : s.status # "healthy")
         IN  [route |-> "/api/monitoring/overview", svc |-> "gateway",
              x_api_key |-> c.x_api_key, status |-> 200,
              overall_status |-> IF unhealthy_services = <<>>
                                 THEN "healthy" ELSE "degraded",
              services |-> services,
              ai_agent_authenticated |-> TRUE]

overview_response(c) ==
    IF c.svc = "ops" THEN ops_overview_response(c) ELSE gateway_overview_response(c)

\* viralogic-ops: GET /api/overview up to the await of gather()
get_system_overview(x_api_key) ==
    /\ IF ~ops_verify_ai_agent_auth(AI_MONITORING_API_KEY, x_api_key)
       THEN /\ resp' = Denied("ops", "/api/overview", x_api_key)
            /\ outbound' = <<>>
            /\ UNCHANGED <<DEFAULT_SERVICES_CONFIG, call>>
       ELSE LET services_config ==
                    get_services_config(DEFAULT_SERVICES_CONFIG, REGISTERED_SERVICES)
                health_checks == HealthChecks(services_config)
                requests == Requests("ops", health_checks, AI_MONITORING_API_KEY)
            IN  /\ DEFAULT_SERVICES_CONFIG' =
                       DefaultsAfterMerge(DEFAULT_SERVICES_CONFIG, REGISTERED_SERVICES)
                /\ call' = [svc |-> "ops", x_api_key |-> x_api_key,
                            services_config |-> services_config,
                            requests |-> requests,
                            probes |-> StartProbes("ops", health_checks)]
                /\ outbound' = requests
                /\ resp' = NoResp
    /\ UNCHANGED <<AI_MONITORING_API_KEY, REGISTERED_SERVICES, lastReg>>

\* monitoring-gateway: GET /api/monitoring/overview up to the await of gather()
get_monitoring_overview(x_api_key) ==
    /\ IF ~gateway_verify_ai_agent_auth(AI_MONITORING_API_KEY, x_api_key)
       THEN /\ resp' = Denied("gateway", "/api/monitoring/overview", x_api_key)
            /\ outbound' = <<>>
            /\ UNCHANGED call
       ELSE LET health_checks == GatewayHealthChecks
                requests == Requests("gateway", health_checks, AI_MONITORING_API_KEY)
            IN  /\ call' = [svc |-> "gateway", x_api_key |-> x_api_key,
                            services_config |-> SERVICE_ENDPOINTS,
                            requests |-> requests,
                            probes |-> StartProbes("gateway", health_checks)]
                /\ outbound' = requests
                /\ resp' = NoResp
    /\ UNCHANGED <<AI_MONITORING_API_KEY, DEFAULT_SERVICES_CONFIG,
                   REGISTERED_SERVICES, lastReg>>

Faults(probes) ==
    Cardinality({i \in DOMAIN probes :
                    probes[i].outcome.kind # "none" /\ probes[i].outcome # OK_JSON})

PendingBefore(probes, i) ==
    Cardinality({j \in DOMAIN probes : j < i /\ probes[j].state = "pending"})

\* the downstream of probe i answers, fails or times out: the coroutine runs to
\* its return
ProbeSettles(i, outcome) ==
    /\ ~Idle
    /\ call.probes[i].state = "pending"
    /\ PendingBefore(call.probes, i) <= MaxOvertake
    /\ outcome = OK_JSON \/ Faults(call.probes) < MaxFaults
    /\ call' = [call EXCEPT !.probes[i] =
                   [@ EXCEPT !.state = "done", !.outcome = outcome,
                             !.result = check_service_health(
                                 call.svc, call.probes[i].service_name,
                                 call.probes[i].config, outcome)]]
    /\ resp' = NoResp
    /\ outbound' = <<>>
    /\ UNCHANGED <<AI_MONITORING_API_KEY, DEFAULT_SERVICES_CONFIG,
                   REGISTERED_SERVICES, lastReg>>

\* a handler that answers as soon as one probe is done, from the records it has
OverviewReturns_FirstCompleted ==
    /\ ~Idle
    /\ \E i \in DOMAIN call.probes : call.probes[i].state = "done"
    /\ resp' = overview_response(
                   [call EXCEPT !.probes =
                       SelectSeq(call.probes, LAMBDA p : p.state = "done")])
    /\ call' = NoCall
    /\ outbound' = <<>>
    /\ UNCHANGED <<AI_MONITORING_API_KEY, DEFAULT_SERVICES_CONFIG,
                   REGISTERED_SERVICES, lastReg>>

\* gather() is over: the handler builds its response
OverviewReturns ==
    /\ ~Idle
    /\ GatherOver(call.probes)
    /\ resp' = overview_response(call)
    /\ call' = NoCall
    /\ outbound' = <<>>
    /\ UNCHANGED <<AI_MONITORING_API_KEY, DEFAULT_SERVICES_CONFIG,
                   REGISTERED_SERVICES, lastReg>>

---------------------------------------------------------------------------
(* viralogic-ops: registration *)

RegNames == {"backend", "svc_a"}

RegUrls == {"http://svc:8000", "http://svc:9000"}

RegGroups == {"registered_services", "main_app"}

\* a ServiceRegistration body: the caller gives name, URL and group, the other
\* fields take their defaults
Registrations ==
    [service_name : RegNames, service_url : RegUrls, group : RegGroups]

\* the value register_service builds for REGISTERED_SERVICES[service_name]
RegistryEntry(registration) ==
    [config |-> [url |-> registration.service_url,
                 health_endpoint |-> "/health",
                 monitoring_endpoint |-> None,
                 metrics_endpoint |-> None,
                 logs_endpoint |-> None,
                 capabilities |-> <<>>,
                 metadata |-> <<>>],
     group |-> registration.group]

\* the registry rebound to a dict of the one new entry
StoreRegistration_Rebind(registered, registration) ==
    <<<<registration.service_name, RegistryEntry(registration)>>>>

\* REGISTERED_SERVICES[registration.service_name] = {...}
StoreRegistration(registered, registration) ==
    DictSet(registered, registration.service_name, RegistryEntry(registration))

\* register_service storing before it looks at the gate's verdict
RegistryAfter_StoreFirst(auth, registered, registration) ==
    DictSet(registered, registration.service_name, RegistryEntry(registration))

\* the registry after register_service: the 401 is raised before the store
RegistryAfter(auth, registered, registration) ==
    IF ~auth THEN registered ELSE StoreRegistration(registered, registration)

\* POST /api/v1/register
register_service(x_api_key, registration) ==
    LET auth == ops_verify_ai_agent_auth(AI_MONITORING_API_KEY, x_api_key)
    IN  /\ REGISTERED_SERVICES' = RegistryAfter(auth, REGISTERED_SERVICES, registration)
        /\ resp' = IF ~auth THEN Denied("ops", "/api/v1/register", x_api_key)
                   ELSE [route |-> "/api/v1/register", svc |-> "ops",
                         x_api_key |-> x_api_key, status |-> 200,
                         body_status |-> "registered",
                         service |-> registration.service_name]
        /\ lastReg' = IF ~auth THEN lastReg
                      ELSE DictSet(lastReg, registration.service_name, registration)
        /\ outbound' = <<>>
        /\ UNCHANGED <<AI_MONITORING_API_KEY, DEFAULT_SERVICES_CONFIG, call>>

\* the JSON bodies callers post to /api/v1/register: a field may be absent or
\* the empty string
RegistrationBodies ==
    {[service_name |-> n, service_url |-> u] :
        n \in {"", "svc_a"}, u \in {"", "http://svc:8000"}}
    \cup {[service_name |-> "svc_a"], [service_url |-> "http://svc:8000"],
          [service_name |-> "backend", service_url |-> "http://svc:9000",
           group |-> "main_app"]}

\* the body passes the validation of the ServiceRegistration model: the two
\* fields without a default are present (any str is accepted, the empty one too)
ValidRegistration(body) ==
    "service_name" \in DOMAIN body /\ "service_url" \in DOMAIN body

\* ServiceRegistration(**body): the fields of the model, defaults filled in
ServiceRegistration(body) ==
    [service_name |-> body.service_name,
     service_url  |-> body.service_url,
     group        |-> Get(body, "group", "registered_services")]

\* POST /api/v1/register with a JSON body: the body is validated against
\* ServiceRegistration before the handler is called; a body that fails is
\* answered 422
post_register(x_api_key, body) ==
    IF ValidRegistration(body)
    THEN register_service(x_api_key, ServiceRegistration(body))
    ELSE /\ resp' = [route |-> "/api/v1/register", svc |-> "ops",
                     x_api_key |-> x_api_key, status |-> 422, request |-> body]
         /\ outbound' = <<>>
         /\ UNCHANGED <<AI_MONITORING_API_KEY, DEFAULT_SERVICES_CONFIG,
                        REGISTERED_SERVICES, call, lastReg>>

---------------------------------------------------------------------------
(* viralogic-ops: reads of the directory *)

RECURSIVE CountServices(_)
CountServices(services_config) ==
    IF services_config = <<>> THEN 0
    ELSE Len(services_config[1][2]) + CountServices(Tail(services_config))

\* GET /health (public)
ops_health_check ==
    /\ resp' = [route |-> "/health", svc |-> "ops", x_api_key |-> NoKey,
                status |-> 200, body_status |-> "healthy",
                ai_auth_configured |-> ~Falsy(AI_MONITORING_API_KEY),
                services_monitored |->
                    CountServices(get_services_config(DEFAULT_SERVICES_CONFIG,
                                                      REGISTERED_SERVICES)),
                registered_services |-> Len(REGISTERED_SERVICES)]
    /\ DEFAULT_SERVICES_CONFIG' =
           DefaultsAfterMerge(DEFAULT_SERVICES_CONFIG, REGISTERED_SERVICES)
    /\ outbound' = <<>>
    /\ UNCHANGED <<AI_MONITORING_API_KEY, REGISTERED_SERVICES, call, lastReg>>

\* the (group_name, service_name, config) triples the nested loops of
\* get_all_services visit, in order
RECURSIVE ListedItems(_)
ListedItems(services_config) ==
    IF services_config = <<>> THEN <<>>
    ELSE [i \in DOMAIN services_config[1][2] |->
             [group |-> services_config[1][1],
              name |-> services_config[1][2][i][1],
              config |-> services_config[1][2][i][2]]]
         \o ListedItems(Tail(services_config))

\* the dict get_all_services appends for one service
ListedService(item) ==
    [name |-> item.name,
     group |-> item.group,
     url |-> item.config.url,
     endpoints |-> [health |-> Get(item.config, "health_endpoint", "/health"),
                    monitoring |-> Get(item.config, "monitoring_endpoint", None),
                    metrics |-> Get(item.config, "metrics_endpoint", None),
                    logs |-> Get(item.config, "logs_endpoint", None)],
     capabilities |-> Get(item.config, "capabilities", <<>>),
     metadata |-> Get(item.config, "metadata", <<>>)]

\* the try block of get_all_services: config["url"] raises for a config that is
\* a str
services_try(services_config) ==
    LET items == ListedItems(services_config)
    IN  IF \E i \in DOMAIN items : ~ops_reaches_get(items[i].config)
        THEN Raise("string indices must be integers", 0)
        ELSE Return([i \in DOMAIN items |-> ListedService(items[i])])

\* GET /api/services
get_all_services(x_api_key) ==
    LET auth == ops_verify_ai_agent_auth(AI_MONITORING_API_KEY, x_api_key)
        tried == services_try(get_services_config(DEFAULT_SERVICES_CONFIG,
                                                  REGISTERED_SERVICES))
    IN  /\ DEFAULT_SERVICES_CONFIG' =
               IF ~auth THEN DEFAULT_SERVICES_CONFIG
               ELSE DefaultsAfterMerge(DEFAULT_SERVICES_CONFIG, REGISTERED_SERVICES)
        /\ resp' =
               IF ~auth THEN Denied("ops", "/api/services", x_api_key)
               ELSE IF tried.kind = "raise"
               THEN [route |-> "/api/services", svc |-> "ops",
                     x_api_key |-> x_api_key, status |-> 500,
                     detail |-> tried.message]
               ELSE [route |-> "/api/services", svc |-> "ops",
                     x_api_key |-> x_api_key, status |-> 200,
                     services |-> tried.value,
                     total_services |-> Len(tried.value),
                     registered_services |-> Len(REGISTERED_SERVICES)]
        /\ outbound' = <<>>
        /\ UNCHANGED <<AI_MONITORING_API_KEY, REGISTERED_SERVICES, call, lastReg>>

\* GET /api/v1/services/registered
get_registered_services(x_api_key) ==
    /\ resp' =
           IF ~ops_verify_ai_agent_auth(AI_MONITORING_API_KEY, x_api_key)
           THEN Denied("ops", "/api/v1/services/registered", x_api_key)
           ELSE [route |-> "/api/v1/services/registered", svc |-> "ops",
                 x_api_key |-> x_api_key, status |-> 200,
                 services |-> REGISTERED_SERVICES,
                 total_registered |-> Len(REGISTERED_SERVICES)]
    /\ outbound' = <<>>
    /\ UNCHANGED <<AI_MONITORING_API_KEY, DEFAULT_SERVICES_CONFIG,
                   REGISTERED_SERVICES, call, lastReg>>

\* service_config = None, where a dict or a str is expected
NoConfig == [is_none |-> TRUE]

IsNone(v) == "is_none" \in DOMAIN v

\* the lookup loop of get_service_monitoring: the first group that has the name
RECURSIVE lookup(_, _)
lookup(services_config, service_name) ==
    IF services_config = <<>> THEN NoConfig
    ELSE IF DictHas(services_config[1][2], service_name)
    THEN DictGet(services_config[1][2], service_name)
    ELSE lookup(Tail(services_config), service_name)

\* the names and endpoints callers ask /api/monitoring/{service_name} for
LookupNames == {"backend", "rss_service", "url", "svc_a", "no_such_service"}

Endpoints == {"health", "monitoring"}

MonitoringRoute == "/api/monitoring/{service_name}"

\* the try block of get_service_monitoring, the service found
monitoring_try(service_name, service_config, endpoint, outcome) ==
    IF ~IsDict(service_config)
    THEN Raise("'str' object has no attribute 'get'", 0)
    ELSE IF outcome.kind = "error"
    THEN Raise(outcome.message, outcome.elapsed_ms)
    ELSE IF outcome.status = 200
    THEN IF outcome.body = "json"
         THEN Return([service |-> service_name, endpoint |-> endpoint,
                      data |-> "json",
                      source |-> service_config.url
                                 \o Get(service_config, endpoint \o "_endpoint",
                                        "/" \o endpoint)])
         ELSE Raise("Attempt to decode JSON with unexpected mimetype",
                    outcome.elapsed_ms)
    ELSE Raise(ToString(outcome.status), outcome.elapsed_ms)

\* the GET of get_service_monitoring
monitoring_request(service_name, service_config, endpoint, configured) ==
    [url |-> service_config.url
             \o Get(service_config, endpoint \o "_endpoint", "/" \o endpoint),
     x_api_key |-> IF service_name = "backend" /\ ~Falsy(configured)
                   THEN configured ELSE NoKey]

\* GET /api/monitoring/{service_name}; outcome is what the downstream does with
\* the one GET the handler makes (kept in the response as 'downstream', which
\* is no part of the body)
get_service_monitoring(x_api_key, service_name, endpoint, outcome) ==
    LET auth            == ops_verify_ai_agent_auth(AI_MONITORING_API_KEY, x_api_key)
        services_config == get_services_config(DEFAULT_SERVICES_CONFIG,
                                               REGISTERED_SERVICES)
        service_config  == lookup(services_config, service_name)
        tried == monitoring_try(service_name, service_config, endpoint, outcome)
    IN  /\ DEFAULT_SERVICES_CONFIG' =
               IF ~auth THEN DEFAULT_SERVICES_CONFIG
               ELSE DefaultsAfterMerge(DEFAULT_SERVICES_CONFIG, REGISTERED_SERVICES)
        /\ resp' =
               IF ~auth THEN Denied("ops", MonitoringRoute, x_api_key)
               ELSE IF IsNone(service_config)
               THEN [route |-> MonitoringRoute, svc |-> "ops",
                     x_api_key |-> x_api_key, status |-> 404,
                     service |-> service_name]
               ELSE IF tried.kind = "raise"
               THEN [route |-> MonitoringRoute, svc |-> "ops",
                     x_api_key |-> x_api_key, status |-> 500,
                     service |-> service_name, detail |-> tried.message,
                     downstream |-> IF IsDict(service_config) THEN outcome
                                    ELSE NoOutcome]
               ELSE [route |-> MonitoringRoute, svc |-> "ops",
                     x_api_key |-> x_api_key, status |-> 200,
                     service |-> service_name, body |-> tried.value,
                     downstream |-> outcome]
        /\ outbound' =
               IF auth /\ ~IsNone(service_config) /\ IsDict(service_config)
               THEN <<monitoring_request(service_name, service_config, endpoint,
                                         AI_MONITORING_API_KEY)>>
               ELSE <<>>
        /\ UNCHANGED <<AI_MONITORING_API_KEY, REGISTERED_SERVICES, call, lastReg>>

HealthRoute == "/api/monitoring/health/{service_name}"

\* monitoring-gateway: GET /api/monitoring/health/{service_name}; outcome is
\* what the downstream does with the GET of the one probe
get_service_health(x_api_key, service_name, outcome) ==
    LET auth == gateway_verify_ai_agent_auth(AI_MONITORING_API_KEY, x_api_key)
        known == DictHas(SERVICE_ENDPOINTS, service_name)
        endpoint_config == DictGet(SERVICE_ENDPOINTS, service_name)
        health_status ==
            gateway_check_service_health(service_name, endpoint_config, outcome)
    IN  /\ resp' =
               IF ~auth THEN Denied("gateway", HealthRoute, x_api_key)
               ELSE IF ~known
               THEN [route |-> HealthRoute, svc |-> "gateway",
                     x_api_key |-> x_api_key, status |-> 404,
                     service |-> service_name]
               ELSE IF health_status.kind = "raise"
               THEN [route |-> HealthRoute, svc |-> "gateway",
                     x_api_key |-> x_api_key, status |-> 500,
                     service |-> service_name, detail |-> health_status.message]
               ELSE [route |-> HealthRoute, svc |-> "gateway",
                     x_api_key |-> x_api_key, status |-> 200,
                     service |-> service_name, body |-> health_status.value]
        /\ outbound' =
               IF auth /\ known /\ gateway_reaches_get(endpoint_config)
               THEN <<gateway_health_request(endpoint_config)>>
               ELSE <<>>
        /\ UNCHANGED <<AI_MONITORING_API_KEY, DEFAULT_SERVICES_CONFIG,
                       REGISTERED_SERVICES, call, lastReg>>

\* the response the handler returned (or the error it raised) goes out
send_response ==
    /\ resp.route # "none"
    /\ resp' = NoResp
    /\ outbound' = <<>>
    /\ UNCHANGED <<AI_MONITORING_API_KEY, DEFAULT_SERVICES_CONFIG,
                   REGISTERED_SERVICES, call, lastReg>>

---------------------------------------------------------------------------
(* Relay routes: one GET to a downstream, its JSON wrapped in an envelope *)

\* answers 503 with a JSON body (an error document)
HTTP_503_JSON == [kind |-> "response", status |-> 503, body |-> "json",
                  message |-> "", elapsed_ms |-> 12]

RelayOutcomes == Outcomes \cup {HTTP_503_JSON}

\* monitoring-gateway: the downstream URLs (env defaults)
BACKEND_URL == "http://api.viralogic.io"

RSS_SERVICE_URL == "http://rss.viralogic.io"

LOKI_URL == "http://loki:1821"

MAX_LOG_LIMIT == 1000

MAX_HOURS_LOOKBACK == 24

\* the {endpoint:path} values callers ask the proxies for
ProxyEndpoints == {"health", "metrics/summary"}

\* the response of a relay handler: what its try block returned, or the 500 of
\* its except clause
relay_response(svc, route, x_api_key, tried, outcome) ==
    IF tried.kind = "raise"
    THEN [route |-> route, svc |-> svc, x_api_key |-> x_api_key, status |-> 500,
          detail |-> tried.message, downstream |-> outcome]
    ELSE [route |-> route, svc |-> svc, x_api_key |-> x_api_key, status |-> 200,
          body |-> tried.value, downstream |-> outcome]

\* monitoring-gateway: the try block of both proxies; response.status is not read
proxy_try(source, endpoint, outcome) ==
    IF outcome.kind = "error"
    THEN Raise(outcome.message, outcome.elapsed_ms)
    ELSE IF outcome.body = "json"
    THEN Return([status |-> "success", data |-> "json", source |-> source,
                 endpoint |-> endpoint])
    ELSE Raise("Attempt to decode JSON with unexpected mimetype", outcome.elapsed_ms)

BackendProxyRoute == "/api/monitoring/backend/{endpoint}"

\* monitoring-gateway: GET /api/monitoring/backend/{endpoint:path}
proxy_backend_monitoring(x_api_key, endpoint, outcome) ==
    LET auth == gateway_verify_ai_agent_auth(AI_MONITORING_API_KEY, x_api_key)
    IN  /\ resp' = IF ~auth THEN Denied("gateway", BackendProxyRoute, x_api_key)
                   ELSE relay_response("gateway", BackendProxyRoute, x_api_key,
                                       proxy_try("backend", endpoint, outcome), outcome)
        /\ outbound' =
               IF auth
               THEN <<[url |-> BACKEND_URL \o "/api/v1/monitoring/" \o endpoint,
                       x_api_key |-> AI_MONITORING_API_KEY]>>
               ELSE <<>>
        /\ UNCHANGED <<AI_MONITORING_API_KEY, DEFAULT_SERVICES_CONFIG,
                       REGISTERED_SERVICES, call, lastReg>>

RssProxyRoute == "/api/monitoring/rss/{endpoint}"

\* monitoring-gateway: GET /api/monitoring/rss/{endpoint:path}
proxy_rss_monitoring(x_api_key, endpoint, outcome) ==
    LET auth == gateway_verify_ai_agent_auth(AI_MONITORING_API_KEY, x_api_key)
    IN  /\ resp' = IF ~auth THEN Denied("gateway", RssProxyRoute, x_api_key)
                   ELSE relay_response("gateway", RssProxyRoute, x_api_key,
                                       proxy_try("rss_service", endpoint, outcome),
                                       outcome)
        /\ outbound' =
               IF auth
               THEN <<[url |-> RSS_SERVICE_URL \o "/" \o endpoint, x_api_key |-> NoKey]>>
               ELSE <<>>
        /\ UNCHANGED <<AI_MONITORING_API_KEY, DEFAULT_SERVICES_CONFIG,
                       REGISTERED_SERVICES, call, lastReg>>

\* a try block that returns value when the downstream answers 200 with JSON and
\* raises otherwise (the HTTPException raised in the else branch included)
relay_try(outcome, value) ==
    IF outcome.kind = "error"
    THEN Raise(outcome.message, outcome.elapsed_ms)
    ELSE IF outcome.status = 200
    THEN IF outcome.body = "json" THEN Return(value)
         ELSE Raise("Attempt to decode JSON with unexpected mimetype",
                    outcome.elapsed_ms)
    ELSE Raise(ToString(outcome.status), outcome.elapsed_ms)

\* viralogic-ops: GET /api/alerts
get_alerts(x_api_key, outcome) ==
    LET auth == ops_verify_ai_agent_auth(AI_MONITORING_API_KEY, x_api_key)
        services_config == get_services_config(DEFAULT_SERVICES_CONFIG,
                                               REGISTERED_SERVICES)
        alertmanager_config ==
            DictGet(DictGet(services_config, "ops_services"), "alertmanager")
    IN  /\ DEFAULT_SERVICES_CONFIG' =
               IF ~auth THEN DEFAULT_SERVICES_CONFIG
               ELSE DefaultsAfterMerge(DEFAULT_SERVICES_CONFIG, REGISTERED_SERVICES)
        /\ resp' = IF ~auth THEN Denied("ops", "/api/alerts", x_api_key)
                   ELSE relay_response("ops", "/api/alerts", x_api_key,
                            relay_try(outcome, [alerts |-> "json",
                                                source |-> "alertmanager"]),
                            outcome)
        /\ outbound' =
               IF auth
               THEN <<[url |-> alertmanager_config.url \o "/api/v1/alerts",
                       x_api_key |-> NoKey]>>
               ELSE <<>>
        /\ UNCHANGED <<AI_MONITORING_API_KEY, REGISTERED_SERVICES, call, lastReg>>

---------------------------------------------------------------------------
(* Log queries: one query_range GET to Loki.  LOKI_USERNAME / LOKI_PASSWORD   *)
(* are not set, so no Authorization header is sent.                          *)

\* the values callers pass as hours and limit
LogHours == {-1, 0, 1, MAX_HOURS_LOOKBACK, MAX_HOURS_LOOKBACK + 1}

LogLimits == {-1, 0, 1, MAX_LOG_LIMIT, MAX_LOG_LIMIT + 1}

LogServices == {None, "backend"}

LogLevels == {None, "error"}

\* viralogic-ops: the Loki query of get_logs
ops_log_query(service, level) ==
    IF service = None /\ level = None THEN "{service=~\".+\"}"
    ELSE IF level = None THEN "{service=\"" \o service \o "\"}"
    ELSE IF service = None THEN "{level=\"" \o level \o "\"}"
    ELSE "{service=\"" \o service \o "\"}" \o " | " \o "{level=\"" \o level \o "\"}"

\* viralogic-ops: GET /api/logs
get_logs(x_api_key, service, level, hours, limit, outcome) ==
    LET auth == ops_verify_ai_agent_auth(AI_MONITORING_API_KEY, x_api_key)
        services_config == get_services_config(DEFAULT_SERVICES_CONFIG,
                                               REGISTERED_SERVICES)
        loki_config == DictGet(DictGet(services_config, "ops_services"), "loki")
        query == ops_log_query(service, level)
    IN  /\ DEFAULT_SERVICES_CONFIG' =
               IF ~auth THEN DEFAULT_SERVICES_CONFIG
               ELSE DefaultsAfterMerge(DEFAULT_SERVICES_CONFIG, REGISTERED_SERVICES)
        /\ resp' = IF ~auth THEN Denied("ops", "/api/logs", x_api_key)
                   ELSE relay_response("ops", "/api/logs", x_api_key,
                            relay_try(outcome,
                                      [logs |-> "json", query |-> query,
                                       hours |-> hours, service |-> service,
                                       level |-> level, limit |-> limit]),
                            outcome)
        /\ outbound' =
               IF auth
               THEN <<[url |-> loki_config.url \o "/loki/api/v1/query_range",
                       x_api_key |-> NoKey, query |-> query,
                       hours |-> hours, limit |-> limit]>>
               ELSE <<>>
        /\ UNCHANGED <<AI_MONITORING_API_KEY, REGISTERED_SERVICES, call, lastReg>>

\* monitoring-gateway: Query(24, ge=1, le=MAX_HOURS_LOOKBACK) and
\* Query(100, ge=1, le=MAX_LOG_LIMIT) of get_production_logs
gateway_log_params_valid(hours, limit) ==
    /\ hours >= 1 /\ hours <= MAX_HOURS_LOOKBACK
    /\ limit >= 1 /\ limit <= MAX_LOG_LIMIT

\* monitoring-gateway: the Loki query of get_production_logs
gateway_log_query(service) ==
    IF service = None THEN "{}"
    ELSE "{logging_jobname=~\".*" \o service \o ".*\"}"

ProductionLogsRoute == "/api/monitoring/logs/production"

\* monitoring-gateway: GET /api/monitoring/logs/production; a request whose
\* parameters fail their declared constraints is answered 422 and the handler
\* is not called
get_production_logs(x_api_key, hours, limit, service, outcome) ==
    LET auth == gateway_verify_ai_agent_auth(AI_MONITORING_API_KEY, x_api_key)
        valid == gateway_log_params_valid(hours, limit)
        query == gateway_log_query(service)
    IN  /\ resp' = IF ~valid
                   THEN [route |-> ProductionLogsRoute, svc |-> "gateway",
                         x_api_key |-> x_api_key, status |-> 422,
                         hours |-> hours, limit |-> limit]
                   ELSE IF ~auth THEN Denied("gateway", ProductionLogsRoute, x_api_key)
                   ELSE relay_response("gateway", ProductionLogsRoute, x_api_key,
                            relay_try(outcome,
                                      [status |-> "success", data |-> "json",
                                       query |-> query, hours |-> hours,
                                       limit |-> limit, service_filter |-> service]),
                            outcome)
        /\ outbound' =
               IF valid /\ auth
               THEN <<[url |-> LOKI_URL \o "/loki/api/v1/query_range",
                       x_api_key |-> NoKey, query |-> query,
                       hours |-> hours, limit |-> limit]>>
               ELSE <<>>
        /\ UNCHANGED <<AI_MONITORING_API_KEY, DEFAULT_SERVICES_CONFIG,
                       REGISTERED_SERVICES, call, lastReg>>

---------------------------------------------------------------------------
(* The authentication gate on its own *)

\* one evaluation of the Depends(verify_ai_agent_auth) of a handler
authenticate(svc, x_api_key) ==
    /\ resp' = [route |-> "verify_ai_agent_auth", svc |-> svc,
                x_api_key |-> x_api_key, status |-> 0,
                allow |-> verify_ai_agent_auth(svc, AI_MONITORING_API_KEY, x_api_key)]
    /\ UNCHANGED <<AI_MONITORING_API_KEY, DEFAULT_SERVICES_CONFIG,
                   REGISTERED_SERVICES, call, outbound, lastReg>>

---------------------------------------------------------------------------
(* The specifications *)

Init ==
    /\ AI_MONITORING_API_KEY \in ConfiguredKeys
    /\ DEFAULT_SERVICES_CONFIG = STATIC_SERVICES
    /\ REGISTERED_SERVICES = <<>>
    /\ call = NoCall
    /\ resp = NoResp
    /\ outbound = <<>>
    /\ lastReg = <<>>

\* The requests of the two services, served one at a time: the next request is
\* taken up once the response to the last one is sent.  The probes of an
\* overview call settle one by one.  The gateway is a process of its own that
\* shares no state with the ops service: its calls are explored from the ops
\* service's initial state.
Next ==
    \/ \E x_api_key \in PresentedKeys :
           Ready /\ get_system_overview(x_api_key)
    \/ \E x_api_key \in PresentedKeys :
           Ready /\ REGISTERED_SERVICES = <<>> /\ get_monitoring_overview(x_api_key)
    \/ \E i \in 1..Len(call.probes), outcome \in Outcomes :
           ProbeSettles(i, outcome)
    \/ OverviewReturns
    \/ \E x_api_key \in PresentedKeys, registration \in Registrations :
           Ready /\ register_service(x_api_key, registration)
    \/ Ready /\ ops_health_check
    \/ \E x_api_key \in PresentedKeys : Ready /\ get_all_services(x_api_key)
    \/ \E x_api_key \in PresentedKeys : Ready /\ get_registered_services(x_api_key)
    \/ \E x_api_key \in PresentedKeys, service_name \in LookupNames,
          endpoint \in Endpoints, outcome \in Outcomes :
           Ready /\ get_service_monitoring(x_api_key, service_name, endpoint, outcome)
    \/ \E x_api_key \in PresentedKeys, service_name \in LookupNames,
          outcome \in Outcomes :
           Ready /\ REGISTERED_SERVICES = <<>>
                 /\ get_service_health(x_api_key, service_name, outcome)
    \/ send_response

Spec == Init /\ [][Next]_vars

\* The relay and log routes of the two services, served one at a time
NextRelay ==
    \/ \E x_api_key \in PresentedKeys, endpoint \in ProxyEndpoints,
          outcome \in RelayOutcomes :
           Ready /\ proxy_backend_monitoring(x_api_key, endpoint, outcome)
    \/ \E x_api_key \in PresentedKeys, endpoint \in ProxyEndpoints,
          outcome \in RelayOutcomes :
           Ready /\ proxy_rss_monitoring(x_api_key, endpoint, outcome)
    \/ \E x_api_key \in PresentedKeys, service_name \in LookupNames,
          endpoint \in Endpoints, outcome \in RelayOutcomes :
           Ready /\ get_service_monitoring(x_api_key, service_name, endpoint, outcome)
    \/ \E x_api_key \in PresentedKeys, outcome \in RelayOutcomes :
           Ready /\ get_alerts(x_api_key, outcome)
    \/ \E x_api_key \in PresentedKeys, service \in LogServices, level \in LogLevels,
          hours \in LogHours, limit \in LogLimits, outcome \in RelayOutcomes :
           Ready /\ get_logs(x_api_key, service, level, hours, limit, outcome)
    \/ \E x_api_key \in PresentedKeys, hours \in LogHours, limit \in LogLimits,
          service \in LogServices, outcome \in RelayOutcomes :
           Ready /\ get_production_logs(x_api_key, hours, limit, service, outcome)
    \/ send_response

SpecRelay == Init /\ [][NextRelay]_vars

\* Registrations posted as JSON bodies, and the reads of the registry
NextRegister ==
    \/ \E x_api_key \in PresentedKeys, body \in RegistrationBodies :
           Ready /\ post_register(x_api_key, body)
    \/ Ready /\ ops_health_check
    \/ send_response

SpecRegister == Init /\ [][NextRegister]_vars

\* The overview calls of the two services on their own.  Every probe settles
\* (its GET is bounded by the ClientTimeout of its session) and the event loop
\* resumes a handler whose gather() is over: weak fairness on both.
NextOverview ==
    \/ \E x_api_key \in PresentedKeys : Ready /\ get_system_overview(x_api_key)
    \/ \E x_api_key \in PresentedKeys : Ready /\ get_monitoring_overview(x_api_key)
    \/ \E i \in 1..Len(call.probes), outcome \in Outcomes : ProbeSettles(i, outcome)
    \/ OverviewReturns
    \/ send_response

SpecOverview ==
    /\ Init
    /\ [][NextOverview]_vars
    /\ WF_vars(\E i \in 1..Len(call.probes), outcome \in Outcomes :
                   ProbeSettles(i, outcome))
    /\ WF_vars(OverviewReturns)

\* the registrations handled while an overview call is suspended
ConcurrentRegistrations ==
    {r \in Registrations : r.service_url = "http://svc:8000" /\ r.group = "main_app"}

\* The ops service with requests overlapping: while an overview call is
\* suspended on its probes the event loop handles registrations.  A response
\* is sent before the next step is taken.
NextConcurrent ==
    \/ \E x_api_key \in PresentedKeys : Ready /\ get_system_overview(x_api_key)
    \/ \E i \in 1..Len(call.probes), outcome \in Outcomes :
           resp.route = "none" /\ ProbeSettles(i, outcome)
    \/ resp.route = "none" /\ OverviewReturns
    \/ \E x_api_key \in PresentedKeys, registration \in ConcurrentRegistrations :
           resp.route = "none" /\ register_service(x_api_key, registration)
    \/ send_response

SpecConcurrent == Init /\ [][NextConcurrent]_vars

InitAuth ==
    /\ AI_MONITORING_API_KEY \in Keys
    /\ DEFAULT_SERVICES_CONFIG = STATIC_SERVICES
    /\ REGISTERED_SERVICES = <<>>
    /\ call = NoCall
    /\ resp = NoResp
    /\ outbound = <<>>
    /\ lastReg = <<>>

\* the x-api-key values a request can carry: the HTTP server strips the
\* whitespace around a header value
HeaderKeys == {key \in Keys : key = NoKey \/ strip(key) = key}

NextAuth ==
    \E svc \in {"ops", "gateway"}, x_api_key \in HeaderKeys : authenticate(svc, x_api_key)

\* the gate of both services applied to every configured key and every header
\* value up to MaxKeyLen
SpecAuth == InitAuth /\ [][NextAuth]_vars

---------------------------------------------------------------------------
(* The claims *)

\* the merged directory a handler would read now
Directory == get_services_config(DEFAULT_SERVICES_CONFIG, REGISTERED_SERVICES)

\* a dict that is itself the settings of one service: it has a 'url' string
IsEndpoint(group_config) ==
    DictHas(group_config, "url") /\ ~IsDict(DictGet(group_config, "url"))

\* The names of the directory's entries (ServiceEndpoints) of the ops service: a
\* top-level item that is a service's settings is the entry of that name, any
\* other top-level item is a group whose items are entries.
RECURSIVE EntryNames(_)
EntryNames(services_config) ==
    IF services_config = <<>> THEN <<>>
    ELSE (IF IsEndpoint(services_config[1][2])
          THEN <<services_config[1][1]>>
          ELSE [i \in DOMAIN services_config[1][2] |-> services_config[1][2][i][1]])
         \o EntryNames(Tail(services_config))

\* the names of the entries of the directory snapshot of an overview call
SnapshotNames(c) ==
    IF c.svc = "ops" THEN EntryNames(c.services_config)
    ELSE [i \in DOMAIN c.services_config |-> c.services_config[i][1]]

Range(seq) == {seq[i] : i \in DOMAIN seq}

\* every probe of the suspended overview call has settled
AllSettled == ~Idle /\ \A i \in DOMAIN call.probes : call.probes[i].state = "done"

\* C1: an overview call over a directory snapshot of N entries issues exactly N
\* probes (one GET per entry) and returns exactly N health records, each named
\* after a directory entry, whatever the probe outcomes are.
C1_OneProbeAndRecordPerEntry ==
    AllSettled =>
        LET r == overview_response(call)
            N == Len(SnapshotNames(call))
        IN  /\ Len(call.requests) = N
            /\ r.status = 200
            /\ Len(r.services) = N
            /\ \A i \in DOMAIN r.services :
                   r.services[i].service \in Range(SnapshotNames(call))

\* every GET of the call was answered with status 200
AllAnswered200(c) ==
    \A i \in DOMAIN c.probes :
        c.probes[i].outcome.kind # "none" =>
            c.probes[i].outcome.kind = "response" /\ c.probes[i].outcome.status = 200

\* C2: overall_status is "healthy" iff every returned record is healthy, else
\* "degraded"; the counts agree with the records; and when every downstream
\* answers its health probe successfully the overview reports "healthy".
C2_OverallStatus ==
    AllSettled =>
        LET r == overview_response(call)
        IN  /\ r.status = 200
            /\ r.overall_status \in {"healthy", "degraded"}
            /\ r.overall_status = "healthy" <=>
                   \A i \in DOMAIN r.services : r.services[i].status = "healthy"
            /\ call.svc = "ops" =>
                   /\ r.total_services = Len(r.services)
                   /\ r.healthy_services =
                          Cardinality({i \in DOMAIN r.services :
                                          r.services[i].status = "healthy"})
            /\ AllAnswered200(call) => r.overall_status = "healthy"

\* C3: a probe classifies by the downstream status alone: 200 gives healthy
\* whatever the body, any other status S gives unhealthy with error "HTTP S", a
\* transport failure or timeout gives unhealthy with a non-empty error and a
\* response time >= 0.
C3_ClassifiedByStatus ==
    \A i \in DOMAIN call.probes :
        LET p == call.probes[i]
        IN  (p.state = "done" /\ p.outcome.kind # "none" /\ p.result.kind = "return") =>
                LET rec == p.result.value
                IN  /\ (p.outcome.kind = "response" /\ p.outcome.status = 200) =>
                           rec.status = "healthy"
                    /\ (p.outcome.kind = "response" /\ p.outcome.status # 200) =>
                           /\ rec.status = "unhealthy"
                           /\ rec.error = "HTTP " \o ToString(p.outcome.status)
                    /\ p.outcome.kind = "error" =>
                           /\ rec.status = "unhealthy"
                           /\ rec.error # None /\ rec.error # ""
                           /\ rec.response_time_ms >= 0

\* C4: check_service_health returns a health record for every entry, malformed
\* ones included, and every downstream outcome; no probe makes the overview call
\* answer with an error.
C4_ProbeNeverRaises ==
    /\ \A i \in DOMAIN call.probes :
           call.probes[i].state = "done" =>
               /\ call.probes[i].result.kind = "return"
               /\ call.probes[i].result.value.service = call.probes[i].service_name
               /\ call.probes[i].result.value.status \in {"healthy", "unhealthy"}
    /\ AllSettled => overview_response(call).status = 200
    /\ resp.route \in {"/api/overview", "/api/monitoring/overview"} =>
           resp.status \in {200, 401}

\* an ops overview call all of whose probes settled: one failed before its GET
\* (a malformed entry), one met a transport failure, one a 200 without JSON
C4_Witness ==
    /\ AllSettled
    /\ call.svc = "ops"
    /\ \E i \in DOMAIN call.probes : ~ops_reaches_get(call.probes[i].config)
    /\ \E i \in DOMAIN call.probes : call.probes[i].outcome.kind = "error"

\* C5: the gate of both services allows iff a key is configured, the caller
\* presented a non-empty key and the two keys are exactly equal.
C5_ExactMatchGate ==
    resp.route = "verify_ai_agent_auth" =>
        (resp.allow <=> /\ AI_MONITORING_API_KEY # NoKey
                        /\ resp.x_api_key # NoKey
                        /\ resp.x_api_key # <<>>
                        /\ resp.x_api_key = AI_MONITORING_API_KEY)

GatedRoutes ==
    {"/api/overview", "/api/monitoring/overview", "/api/v1/register", MonitoringRoute,
     HealthRoute, "/api/services", "/api/v1/services/registered"}

C7_OneEntryPerName ==
    \A g1, g2 \in DOMAIN Directory :
        \A i \in DOMAIN Directory[g1][2], j \in DOMAIN Directory[g2][2] :
            Directory[g1][2][i][1] = Directory[g2][2][j][1] => g1 = g2

\* C8: registration is last-write-wins and at once visible to the by-name
\* lookup of /api/monitoring/{name}: a registered name resolves to the entry of
\* its last registration.
C8_LookupSeesLastRegistration ==
    \A i \in DOMAIN lastReg :
        LET found == lookup(Directory, lastReg[i][1])
        IN  /\ ~IsNone(found)
            /\ IsDict(found)
            /\ found.url = lastReg[i][2].service_url

\* C9: registrations of different names all take effect: every acknowledged
\* name is in the directory, in the group of its last registration, with the
\* whole entry of that registration.
C9_NoLostRegistration ==
    \A i \in DOMAIN lastReg :
        LET name == lastReg[i][1]
            reg  == lastReg[i][2]
        IN  /\ DictHas(REGISTERED_SERVICES, name)
            /\ DictGet(REGISTERED_SERVICES, name) = RegistryEntry(reg)
            /\ DictHas(Directory, reg.group)
            /\ DictHas(DictGet(Directory, reg.group), name)
            /\ DictGet(DictGet(Directory, reg.group), name) = RegistryEntry(reg).config

\* two different names were registered, one after the other
C9_Witness ==
    /\ Len(lastReg) = 2
    /\ Len(REGISTERED_SERVICES) = 2
    /\ lastReg[1][1] # lastReg[2][1]

\* C10: an overview call writes nothing back to the directory: static table
\* and registry are the same before and after every step of the call.
C10_OverviewWritesNothing ==
    [][(call' # call \/ resp'.route \in {"/api/overview", "/api/monitoring/overview"})
       => (/\ DEFAULT_SERVICES_CONFIG' = DEFAULT_SERVICES_CONFIG
           /\ REGISTERED_SERVICES' = REGISTERED_SERVICES)]_vars

\* the directory d holds every service of the static table under its group with
\* the settings the table was loaded with
HoldsStatic(d) ==
    \A g \in DOMAIN STATIC_SERVICES :
        \A i \in DOMAIN STATIC_SERVICES[g][2] :
            LET group == STATIC_SERVICES[g][1]
                name  == STATIC_SERVICES[g][2][i][1]
            IN  /\ DictHas(d, group)
                /\ DictHas(DictGet(d, group), name)
                /\ DictGet(DictGet(d, group), name) = STATIC_SERVICES[g][2][i][2]

\* C11: every statically configured service stays in the directory with its
\* original URL and endpoint paths: neither the static table nor the merged
\* directory ever loses or alters a static entry.
C11_StaticEntriesPersist ==
    /\ HoldsStatic(DEFAULT_SERVICES_CONFIG)
    /\ HoldsStatic(Directory)

\* the names of the services in the directory of a service
ServiceNames(svc) ==
    IF svc = "ops" THEN Range(EntryNames(Directory)) ELSE DictKeys(SERVICE_ENDPOINTS)

ByNameRoutes == {MonitoringRoute, HealthRoute}

\* C12: a by-name route called with a valid key and a name that is no service
\* of the directory answers 404, never 500, and makes no outbound call.
C12_UnknownNameIs404 ==
    (/\ resp.route \in ByNameRoutes
     /\ verify_ai_agent_auth(resp.svc, AI_MONITORING_API_KEY, resp.x_api_key)
     /\ resp.service \notin ServiceNames(resp.svc))
    => (resp.status = 404 /\ outbound = <<>>)

RelayRoutes ==
    {BackendProxyRoute, RssProxyRoute, MonitoringRoute, "/api/alerts", "/api/logs",
     ProductionLogsRoute}

\* the downstream answered with a 2xx status and a JSON body
AnsweredJson(outcome) ==
    outcome.kind = "response" /\ outcome.status \in 200..299 /\ outcome.body = "json"

\* the handler of a relay route made its GET and the downstream settled it
Relayed ==
    /\ resp.route \in RelayRoutes
    /\ resp.status \in {200, 500}
    /\ resp.downstream.kind # "none"

\* C13: on every relay route a downstream answer with a non-2xx status or a
\* non-JSON body, or a transport failure or timeout, makes the route answer
\* 500; a success envelope is returned only for a successful JSON answer.
C13_RelayFailureIs500 ==
    Relayed =>
        /\ ~AnsweredJson(resp.downstream) => resp.status = 500
        /\ resp.status = 200 => AnsweredJson(resp.downstream)

\* the body names a service and a URL, both non-empty
NamesServiceAndUrl(body) ==
    /\ ValidRegistration(body)
    /\ body.service_name # ""
    /\ body.service_url # ""

\* C14: an authenticated registration succeeds, storing the named entry,
\* exactly when service_name and service_url are both non-empty; otherwise it
\* fails with a validation error and the registry is unchanged.
C14_RegistrationValidated ==
    [][(/\ resp' # resp
        /\ resp'.route = "/api/v1/register"
        /\ resp'.status # 401)
       => \/ /\ resp'.status = 200
             /\ DictHas(REGISTERED_SERVICES', resp'.service)
             /\ NamesServiceAndUrl(DictGet(lastReg', resp'.service))
          \/ /\ resp'.status = 422
             /\ ~NamesServiceAndUrl(resp'.request)
             /\ REGISTERED_SERVICES' = REGISTERED_SERVICES]_vars

\* C15: with a valid key GET /api/services answers 200 with exactly one item
\* per service of the directory, named after it, and total_services equal to
\* the number of services, for every registry content.
C15_ServicesListed ==
    (/\ resp.route = "/api/services"
     /\ ops_verify_ai_agent_auth(AI_MONITORING_API_KEY, resp.x_api_key))
    => /\ resp.status = 200
       /\ [i \in DOMAIN resp.services |-> resp.services[i].name] = EntryNames(Directory)
       /\ resp.total_services = Len(EntryNames(Directory))

\* the query_range GETs sent to the log store by the last step
LogQueries == {i \in DOMAIN outbound : "limit" \in DOMAIN outbound[i]}

\* C16: no query reaches the log store with a limit outside 1..MAX_LOG_LIMIT or
\* a lookback window outside 1..MAX_HOURS_LOOKBACK, on either service's log
\* route: an out-of-range value is clamped or rejected before the GET.
C16_LogCeilings ==
    \A i \in LogQueries :
        /\ outbound[i].limit >= 1 /\ outbound[i].limit <= MAX_LOG_LIMIT
        /\ outbound[i].hours >= 1 /\ outbound[i].hours <= MAX_HOURS_LOOKBACK

\* C17: registered services never expire: no step removes a name from the
\* registry or lowers the number of registered names, every name holds the
\* fields of its most recent successful registration, and the registered-
\* services listing returns the registry as it is.
C17_RegistrationsNeverExpire ==
    [][/\ \A i \in DOMAIN REGISTERED_SERVICES :
              DictHas(REGISTERED_SERVICES', REGISTERED_SERVICES[i][1])
       /\ Len(REGISTERED_SERVICES') >= Len(REGISTERED_SERVICES)
       /\ \A i \in DOMAIN lastReg' :
              /\ DictHas(REGISTERED_SERVICES', lastReg'[i][1])
              /\ DictGet(REGISTERED_SERVICES', lastReg'[i][1])
                     = RegistryEntry(lastReg'[i][2])
       /\ (resp'.route = "/api/v1/services/registered" /\ resp'.status = 200)
              => /\ resp'.services = REGISTERED_SERVICES'
                 /\ resp'.total_registered = Len(REGISTERED_SERVICES')]_vars

\* the listing is returned with two registered names in it
C17_Witness ==
    /\ resp.route = "/api/v1/services/registered"
    /\ resp.status = 200
    /\ Len(resp.services) = 2
    /\ DictKeys(resp.services) = DictKeys(lastReg)

OverviewRoutes == {"/api/overview", "/api/monitoring/overview"}

\* the step that starts an overview call starts all its probes: every GET of the
\* call is issued in that step and every probe that has a GET is pending
FanOut ==
    (Idle /\ call' # call) =>
        /\ outbound' = call'.requests
        /\ Len(call'.requests) =
               Cardinality({i \in DOMAIN call'.probes : call'.probes[i].state = "pending"})
        /\ \A i \in DOMAIN call'.probes :
               call'.probes[i].state = "done" => call'.probes[i].outcome.kind = "none"

\* the step that ends an overview call is taken with every probe settled and
\* answers with the record of every probe, in order
FanIn ==
    (~Idle /\ call'.svc = "none") =>
        /\ \A i \in DOMAIN call.probes : call.probes[i].state = "done"
        /\ resp'.route \in OverviewRoutes
        /\ resp'.status = 200
        /\ resp'.services = [i \in DOMAIN call.probes |-> call.probes[i].result.value]

\* C18: an overview call starts all its probes together, answers only once
\* every probe has settled, with a record for each, and does answer eventually
\* whatever order the probes settle in.
C18_FanOutFanIn ==
    /\ [][FanOut /\ FanIn]_vars
    /\ (~Idle) ~> (Idle /\ resp.route \in OverviewRoutes /\ resp.status = 200)

\* an overview call answered although one of its probes ran into its timeout
C18_Witness ==
    /\ resp.route \in OverviewRoutes
    /\ resp.status = 200
    /\ \E i \in DOMAIN resp.services :
           resp.services[i].status = "unhealthy" /\ resp.services[i].response_time_ms = 10000

\* the directory changed since the suspended ops overview call took its snapshot
RegisteredDuringCall ==
    ~Idle /\ call.svc = "ops" /\ Directory # call.services_config

\* the probes of the suspended call are those of its snapshot, in order, and a
\* settled probe's record is the one its snapshot entry and outcome give
ProbesOfSnapshot ==
    LET checks == HealthChecks(call.services_config)
    IN  /\ Len(call.probes) = Len(checks)
        /\ \A i \in DOMAIN call.probes :
               /\ call.probes[i].service_name = checks[i][1]
               /\ call.probes[i].config = checks[i][2]
               /\ call.probes[i].state = "done" =>
                      call.probes[i].result =
                          ops_check_service_health(checks[i][1], checks[i][2],
                                                   call.probes[i].outcome)

\* C19: a registration handled while an overview call is suspended does not
\* change that call's result: its records are, in snapshot order, exactly those
\* of the entries the directory held when the call took its snapshot.
C19_SnapshotStable ==
    (AllSettled /\ RegisteredDuringCall) =>
        LET r == overview_response(call)
        IN  /\ r.status = 200
            /\ ProbesOfSnapshot
            /\ [i \in DOMAIN r.services |-> r.services[i].service] = SnapshotNames(call)

\* C20: on /api/monitoring/{name} with a valid key, the name of every service
\* of the directory (the well-known static ones, rss_service among them, and
\* the registered ones) resolves to a configuration record, a registered name
\* to the record of its registration, and is not answered 404; a name that is
\* no service (such as a settings key) does not resolve and is answered 404.
C20_LookupResolvesServices ==
    (/\ resp.route = MonitoringRoute
     /\ ops_verify_ai_agent_auth(AI_MONITORING_API_KEY, resp.x_api_key))
    => LET found == lookup(Directory, resp.service)
       IN  IF resp.service \in ServiceNames("ops")
           THEN /\ resp.status # 404
                /\ ~IsNone(found) /\ IsDict(found)
                /\ DictHas(REGISTERED_SERVICES, resp.service) =>
                       found = DictGet(REGISTERED_SERVICES, resp.service).config
           ELSE /\ resp.status = 404
                /\ IsNone(found)

StartsWith(s, prefix) ==
    /\ Len(s) >= Len(prefix)
    /\ SubSeq(s, 1, Len(prefix)) = prefix

\* the backend base URL of the configuration the module is loaded with
StaticBackendUrl == DictGet(DictGet(STATIC_SERVICES, "main_app"), "backend").url

\* the outbound requests that carry the x-api-key header
KeyedRequests == {r \in Range(outbound) : r.x_api_key # NoKey}

\* the service URLs that callers have supplied through registration
SuppliedUrls ==
    {REGISTERED_SERVICES[i][2].config.url : i \in DOMAIN REGISTERED_SERVICES}

\* C21: after any sequence of registrations, every outbound request (probe or
\* relay) that carries the x-api-key header goes to the statically configured
\* backend base URL, and none goes to a URL supplied through registration.
C21_KeyOnlyToStaticBackend ==
    \A r \in KeyedRequests :
        /\ StartsWith(r.url, StaticBackendUrl)
        /\ \A u \in SuppliedUrls : ~StartsWith(r.url, u)

=============================================================================
